---- MODULE Spec2Model ----
(***************************************************************************)
(* camgazebo-genom3: the codels of codels/camgazebo_main_codels.cc.        *)
(*                                                                         *)
(* Three kinds of execution context share the camera state: the Gazebo     *)
(* transport thread running camgz_cb, the periodic task main running       *)
(* camgz_wait / camgz_pub, and the request contexts running the activity   *)
(* codels (connect, disconnect, set_extrinsics, set_hfov, set_format,      *)
(* set_disto).  Each action below is one step of one codel, cut at the     *)
(* reads and writes of shared variables that are not protected by `mut'.   *)
(*                                                                         *)
(* Byte lengths are 64-bit unsigned values written as four base-2^16       *)
(* limbs <<a3, a2, a1, a0>>, most significant first, so that the product   *)
(* of two uint16_t values times 3 and its 32-bit wrap-around are exact.    *)
(*                                                                         *)
(* Buffer contents are kept by provenance: Marks are the byte counts that  *)
(* a copy can have; buf[i] is the number of the on_frame invocation that   *)
(* wrote the bytes between the (i-1)-th and the i-th mark in increasing    *)
(* order (0: never written by on_frame).                                   *)
(***************************************************************************)
EXTENDS Integers, Sequences, FiniteSets, TLC

(* ------------------------------------------------------------------ *)
(* Bounds of the model                                                 *)
(* ------------------------------------------------------------------ *)
MaxFrames == 1      \* on_frame invocations delivered by the transport
MaxReqs == 2        \* activity requests served

(* ------------------------------------------------------------------ *)
(* Program constants                                                   *)
(* ------------------------------------------------------------------ *)
DefaultW == 1920
DefaultH == 1080
DefaultHfov == 1047          \* 1.047 rad, in milliradians
Bpp == 3

\* request contexts running activity codels, in parallel with task main
\* and with the transport thread
Req == {"r1", "r2"}
\* the contexts serving requests under Spec
Serving == {"r1"}

\* set_format(w_val, h_val) requests, (width, height)
FmtInputs == {<<3, 2>>, <<65535, 65535>>}
\* set_hfov(hfov_val) requests, milliradians
HfovInputs == {785}
\* set_extrinsics requests
ExtInputs == {<<1, 0, 0, 0, 0, 0>>}
\* set_disto requests
DistoInputs == {<<1, 0, 0, 0, 0>>}
\* (width, height) of the images the simulator delivers
ImgFormats == {<<3, 2>>, <<1920, 1080>>}

WVals == {DefaultW} \cup {f[1] : f \in FmtInputs}
HVals == {DefaultH} \cup {f[2] : f \in FmtInputs}

(* ------------------------------------------------------------------ *)
(* Machine arithmetic                                                  *)
(* ------------------------------------------------------------------ *)
Base == 2^16
HalfBase == 2^15

\* a natural below 2^31 as a 64-bit length
U64(n) == <<0, 0, n \div Base, n % Base>>

Zero64 == U64(0)

\* a < b on 64-bit unsigned values
LT(a, b) ==
    \/ a[1] < b[1]
    \/ a[1] = b[1] /\ a[2] < b[2]
    \/ a[1] = b[1] /\ a[2] = b[2] /\ a[3] < b[3]
    \/ a[1] = b[1] /\ a[2] = b[2] /\ a[3] = b[3] /\ a[4] < b[4]

LE(a, b) == a = b \/ LT(a, b)

\* the mathematical product h * w * 3 of two uint16_t values
MulExact(h, w) ==
    LET x == 3 * ((h \div 256) * w)
        y == 3 * ((h % 256) * w)
        low == (x % 256) * 256 + y
        hi == (x \div 256) + (low \div Base)
    IN  <<0, hi \div Base, hi % Base, low % Base>>

\* does the product fit the 32-bit int the expression is evaluated in
FitsInt(x) == x[1] = 0 /\ x[2] = 0 /\ x[3] < HalfBase

\* the low 32 bits of x read as an int and converted to a 64-bit unsigned
WrapInt(x) ==
    IF x[3] >= HalfBase THEN <<Base - 1, Base - 1, x[3], x[4]>>
                        ELSE <<0, 0, x[3], x[4]>>

\* conversion to the uint32_t of a genom sequence's _length / _maximum
Trunc32(x) == <<0, 0, x[3], x[4]>>

\* the values  *h * *w * 3  can leave in cgz_data->l.  The operands are
\* promoted to int; when the product does not fit, the signed overflow is
\* undefined: the build either wraps in 32 bits or evaluates the product
\* in the wider register of the destination.
FmtLength(h, w) ==
    LET p == MulExact(h, w)
    IN  IF FitsInt(p) THEN {p} ELSE {WrapInt(p), p}

\* length in bytes of the image data of an RGB image
ImgLen(f) == MulExact(f[2], f[1])

\* cgz_data->l as left by  new or_camera_data():  the length of a frame
\* at the default resolution
InitLen == MulExact(DefaultH, DefaultW)

(* ------------------------------------------------------------------ *)
(* Buffers                                                             *)
(* ------------------------------------------------------------------ *)
\* the values cgz_data->l can take
LVals == {InitLen} \cup UNION {FmtLength(h, w) : h \in HVals, w \in WVals}

\* every byte count a copy or a published length can have
Marks ==
    LVals \cup {Trunc32(x) : x \in LVals} \cup {ImgLen(f) : f \in ImgFormats}

\* the boundaries in increasing order
Rank(m) == Cardinality({x \in Marks : LE(x, m)})
NMarks == Cardinality(Marks)
MarkSeq == [i \in 1 .. NMarks |-> CHOOSE m \in Marks : Rank(m) = i]

\* a buffer no on_frame has written
Unwritten == [i \in 1 .. NMarks |-> 0]

\* memcpy(dst, src, n): the first n bytes of dst become those of src
Memcpy(dst, src, n) ==
    [i \in 1 .. NMarks |-> IF LE(MarkSeq[i], n) THEN src[i] ELSE dst[i]]

\* the bytes of message number id
MsgBytes(id) == [i \in 1 .. NMarks |-> id]

\* the writers of the first n bytes of a buffer
Writers(buf, n) == {buf[i] : i \in {j \in 1 .. NMarks : LE(MarkSeq[j], n)}}

(* ------------------------------------------------------------------ *)
(* Calibration                                                         *)
(* ------------------------------------------------------------------ *)
\* n / tan(a / 2) with a = hfov * p / q, kept symbolically
Focal(n, hfov, p, q) == [num |-> n, hfov |-> hfov, p |-> p, q |-> q]

\* compute_calib: calib._buffer[0..4]
ComputeCalib(hfov, w, h) ==
    << Focal(w \div 2, hfov, 1, 1),
       Focal(h \div 2, hfov, h, w),
       0,
       w \div 2,
       h \div 2 >>

ZeroDisto == <<0, 0, 0, 0, 0>>
ZeroExt == <<0, 0, 0, 0, 0, 0>>

(* ------------------------------------------------------------------ *)
(* State                                                               *)
(* ------------------------------------------------------------------ *)
VARIABLES
    ids_w, ids_h,       \* ids->w, ids->h
    ids_hfov,           \* ids->hfov
    started,            \* ids->info.started
    l,                  \* cgz_data->l
    data,               \* cgz_data->data
    mut,                \* holder of the mutex mut, or "none"
    fdata,              \* frame->data(self): the frame port's buffer
    pubFrame,           \* the frame record last given to frame->write
    intr,               \* the intrinsics record, as last written
    extr,               \* the extrinsics record, as last written
    sub,                \* (*pipe)->sub: number of the stored subscription
    subActive,          \* the transport client is set up and delivers
    pc_main, loc_main,  \* task main: position, by-value h and w of camgz_pub
    pc_cb, cb_msg,      \* transport thread: position, message in hand
    nframes,            \* on_frame invocations so far
    pc, arg,            \* request contexts: position, by-value arguments
    nreq,               \* activity requests so far
    crashed,            \* a copy ran past the destination's capacity
    dirty,              \* history: a frame was copied in since the last write
    fmtPre,             \* history: w, h, l when set_format was last called
    lastDone,           \* history: the activity that returned last
    sc                  \* history: <<stage, frame>> of the sequential
                        \*   scenario set_format; on_frame; tick

vars == << ids_w, ids_h, ids_hfov, started, l, data, mut, fdata, pubFrame,
           intr, extr, sub, subActive, pc_main, loc_main, pc_cb, cb_msg,
           nframes, pc, arg, nreq, crashed, dirty, fmtPre, lastDone, sc >>

cfgVars == << ids_w, ids_h, ids_hfov, l, intr, extr >>
mainVars == << fdata, pubFrame, pc_main, loc_main >>
cbVars == << pc_cb, cb_msg, nframes >>
connVars == << started, sub, subActive >>

NoArg == <<0, 0, 0>>
NoScenario == <<0, 0>>
NoMsg == [id |-> 0, len |-> Zero64]
NoLoc == [h |-> 0, w |-> 0]

\* the component runs until a copy past a buffer's end stops it
Running == ~crashed

AllIdle == \A r \in Req : pc[r] = "idle"
OthersIdle(r) == \A q \in Req \ {r} : pc[q] = "idle"
MainResting == pc_main = "wait"

\* the state left by camgz_start
Init ==
    /\ ids_w = DefaultW
    /\ ids_h = DefaultH
    /\ ids_hfov = DefaultHfov
    /\ started = FALSE
    /\ l = InitLen
    /\ data = Unwritten
    /\ mut = "none"
    /\ fdata = [height |-> 0, width |-> 0, bpp |-> 0, maximum |-> Zero64,
                length |-> Zero64, buf |-> Unwritten]
    /\ pubFrame = [written |-> FALSE, height |-> 0, width |-> 0, bpp |-> 0,
                   length |-> Zero64, buf |-> Unwritten]
    /\ intr = [calib |-> ComputeCalib(DefaultHfov, DefaultW, DefaultH),
               disto |-> ZeroDisto]
    /\ extr = ZeroExt
    /\ sub = 0
    /\ subActive = FALSE
    /\ pc_main = "wait"
    /\ loc_main = NoLoc
    /\ pc_cb = "idle"
    /\ cb_msg = NoMsg
    /\ nframes = 0
    /\ pc = [r \in Req |-> "idle"]
    /\ arg = [r \in Req |-> NoArg]
    /\ nreq = 0
    /\ crashed = FALSE
    /\ dirty = FALSE
    /\ fmtPre = [w |-> DefaultW, h |-> DefaultH, l |-> InitLen]
    /\ lastDone = "none"
    /\ sc = NoScenario

(* ------------------------------------------------------------------ *)
(* Transport thread: camgz_cb                                          *)
(* ------------------------------------------------------------------ *)
\* variant: a message no longer than the declared length passes
SizeMatchesLoose(len, declared) == LE(len, declared)

\* the test of line 43
SizeMatches(len, declared) == len = declared

\* the callback is entered with a message and compares its length with
\* cgz_data->l, outside the mutex
CbInvoke ==
    /\ Running
    /\ pc_cb = "idle"
    /\ subActive
    /\ nframes < MaxFrames
    /\ \E f \in ImgFormats :
         LET len == ImgLen(f) IN
         /\ nframes' = nframes + 1
         /\ cb_msg' = [id |-> nframes + 1, len |-> len]
         /\ pc_cb' = IF SizeMatches(len, l) THEN "copy" ELSE "skip"
         /\ sc' = IF sc[1] = 2 /\ len = MulExact(ids_h, ids_w)
                    THEN <<3, nframes + 1>> ELSE NoScenario
    /\ UNCHANGED << lastDone, nreq, cfgVars, mainVars, connVars, data, mut,
                    pc, arg, crashed, dirty, fmtPre >>

\* line 44: warnx("Skipping frame, incorrect size"); return
CbSkip ==
    /\ Running
    /\ pc_cb = "skip"
    /\ pc_cb' = "idle"
    /\ cb_msg' = NoMsg
    /\ UNCHANGED << lastDone, nreq, cfgVars, mainVars, connVars, data, mut,
                    nframes, pc, arg, crashed, dirty, fmtPre, sc >>

\* lines 47-48: lock_guard; memcpy(cgz_data->data, msg, msg length); unlock
CbCopy ==
    /\ Running
    /\ pc_cb = "copy"
    /\ mut = "none"
    /\ data' = Memcpy(data, MsgBytes(cb_msg.id), cb_msg.len)
    /\ pc_cb' = "idle"
    /\ dirty' = TRUE
    /\ sc' = IF sc[1] = 3 THEN <<4, sc[2]>> ELSE NoScenario
    /\ cb_msg' = NoMsg
    /\ UNCHANGED << lastDone, nreq, cfgVars, mainVars, connVars, mut,
                    nframes, pc, arg, crashed, fmtPre >>

(* ------------------------------------------------------------------ *)
(* Task main: camgz_wait, camgz_pub                                    *)
(* ------------------------------------------------------------------ *)
\* camgz_wait; on camgazebo_pub, camgz_pub is entered with ids->h and
\* ids->w by value; on camgazebo_pause_wait the task comes back to
\* camgz_wait at its next period
Wait ==
    /\ Running
    /\ pc_main = "wait"
    /\ IF started
         THEN /\ pc_main' = "pub_check"
              /\ loc_main' = [h |-> ids_h, w |-> ids_w]
         ELSE UNCHANGED << pc_main, loc_main >>
    /\ sc' = IF sc[1] = 4 /\ started THEN <<5, sc[2]>> ELSE NoScenario
    /\ UNCHANGED << lastDone, nreq, cfgVars, cbVars, connVars, data, mut,
                    fdata, pubFrame, pc, arg, crashed, dirty, fmtPre >>

\* line 132: cgz_data->l > fdata->pixels._maximum
NeedsReserve(declared, maximum) == LT(maximum, declared)

PubCheck ==
    /\ Running
    /\ pc_main = "pub_check"
    /\ pc_main' = IF NeedsReserve(l, fdata.maximum) THEN "pub_reserve"
                                                   ELSE "pub_fill"
    /\ UNCHANGED << lastDone, nreq, cfgVars, cbVars, connVars, data, mut,
                    fdata, pubFrame, loc_main, pc, arg, crashed, dirty,
                    fmtPre, sc >>

\* genom_sequence_reserve(&fdata->pixels, n) succeeding
Reserved(f, n) ==
    [f EXCEPT !.maximum = Trunc32(n),
              !.length = IF LT(Trunc32(n), f.length) THEN Trunc32(n)
                                                     ELSE f.length]

\* line 133: the reservation, with cgz_data->l read again; it can fail
PubReserve ==
    /\ Running
    /\ pc_main = "pub_reserve"
    /\ \/ /\ fdata' = Reserved(fdata, l)
          /\ pc_main' = "pub_fill"
       \/ /\ pc_main' = "emem"
          /\ UNCHANGED fdata
    /\ UNCHANGED << lastDone, nreq, cfgVars, cbVars, connVars, data, mut,
                    pubFrame, loc_main, pc, arg, crashed, dirty, fmtPre,
                    sc >>

\* lines 134-137: camgazebo_e_mem is returned
PubEMem ==
    /\ Running
    /\ pc_main = "emem"
    /\ pc_main' = "wait"
    /\ loc_main' = NoLoc
    /\ sc' = NoScenario
    /\ UNCHANGED << lastDone, nreq, cfgVars, cbVars, connVars, data, mut,
                    fdata, pubFrame, pc, arg, crashed, dirty, fmtPre >>

\* variant: height and width exchanged
FilledSwapped(f, h, w, declared) ==
    [f EXCEPT !.height = w, !.width = h, !.bpp = Bpp,
              !.length = Trunc32(declared)]

\* lines 139-142
Filled(f, h, w, declared) ==
    [f EXCEPT !.height = h, !.width = w, !.bpp = Bpp,
              !.length = Trunc32(declared)]

PubFill ==
    /\ Running
    /\ pc_main = "pub_fill"
    /\ fdata' = Filled(fdata, loc_main.h, loc_main.w, l)
    /\ loc_main' = NoLoc
    /\ pc_main' = "pub_lock"
    /\ UNCHANGED << lastDone, nreq, cfgVars, cbVars, connVars, data, mut,
                    pubFrame, pc, arg, crashed, dirty, fmtPre, sc >>

\* line 144
PubLock ==
    /\ Running
    /\ pc_main = "pub_lock"
    /\ mut = "none"
    /\ mut' = "main"
    /\ pc_main' = "pub_copy"
    /\ UNCHANGED << lastDone, nreq, cfgVars, cbVars, connVars, data, fdata,
                    pubFrame, loc_main, pc, arg, crashed, dirty, fmtPre,
                    sc >>

\* line 145: memcpy of cgz_data->l bytes into the reserved pixels; past
\* the capacity the behaviour is undefined and the component is stopped
PubCopy ==
    /\ Running
    /\ pc_main = "pub_copy"
    /\ IF LT(fdata.maximum, l)
         THEN /\ crashed' = TRUE
              /\ UNCHANGED << fdata, pc_main >>
         ELSE /\ fdata' = [fdata EXCEPT !.buf = Memcpy(fdata.buf, data, l)]
              /\ pc_main' = "pub_write"
              /\ UNCHANGED crashed
    /\ UNCHANGED << lastDone, nreq, cfgVars, cbVars, connVars, data, mut,
                    pubFrame, loc_main, pc, arg, dirty, fmtPre, sc >>

\* the record handed to frame->write
Snapshot(f) ==
    [written |-> TRUE, height |-> f.height, width |-> f.width,
     bpp |-> f.bpp, length |-> f.length, buf |-> f.buf]

\* lines 147-150: frame->write, return, the guard releases mut
PubWrite ==
    /\ Running
    /\ pc_main = "pub_write"
    /\ pubFrame' = Snapshot(fdata)
    /\ mut' = "none"
    /\ pc_main' = "wait"
    /\ dirty' = FALSE
    /\ sc' = IF sc[1] = 5 THEN <<6, sc[2]>> ELSE NoScenario
    /\ UNCHANGED << lastDone, nreq, cfgVars, cbVars, connVars, data, fdata,
                    loc_main, pc, arg, crashed, fmtPre >>

(* ------------------------------------------------------------------ *)
(* Activities                                                          *)
(* ------------------------------------------------------------------ *)
Goto(r, where) == pc' = [pc EXCEPT ![r] = where]

\* line 168
ConnectLock(r) ==
    /\ Running
    /\ pc[r] = "idle"
    /\ nreq < MaxReqs
    /\ nreq' = nreq + 1
    /\ mut = "none"
    /\ mut' = r
    /\ Goto(r, "con_sub")
    /\ sc' = NoScenario
    /\ UNCHANGED << lastDone, cfgVars, mainVars, cbVars, connVars, data,
                    arg, crashed, dirty, fmtPre >>

\* lines 170-176: client setup, a new node, a new subscription stored
NewSub(s) == s + 1

ConnectSubscribe(r) ==
    /\ Running
    /\ pc[r] = "con_sub"
    /\ sub' = NewSub(sub)
    /\ subActive' = TRUE
    /\ Goto(r, "con_ret")
    /\ UNCHANGED << lastDone, nreq, cfgVars, mainVars, cbVars, started,
                    data, mut, arg, crashed, dirty, fmtPre, sc >>

\* lines 179-181
ConnectReturn(r) ==
    /\ Running
    /\ lastDone' = "connect"
    /\ pc[r] = "con_ret"
    /\ started' = TRUE
    /\ mut' = "none"
    /\ Goto(r, "idle")
    /\ UNCHANGED << nreq, cfgVars, mainVars, cbVars, sub, subActive, data,
                    arg, crashed, dirty, fmtPre, sc >>

\* line 195
DisconnectLock(r) ==
    /\ Running
    /\ pc[r] = "idle"
    /\ nreq < MaxReqs
    /\ nreq' = nreq + 1
    /\ mut = "none"
    /\ mut' = r
    /\ Goto(r, "dis_shut")
    /\ sc' = NoScenario
    /\ UNCHANGED << lastDone, cfgVars, mainVars, cbVars, connVars, data,
                    arg, crashed, dirty, fmtPre >>

\* line 196
DisconnectShutdown(r) ==
    /\ Running
    /\ pc[r] = "dis_shut"
    /\ subActive' = FALSE
    /\ Goto(r, "dis_ret")
    /\ UNCHANGED << lastDone, nreq, cfgVars, mainVars, cbVars, started, sub,
                    data, mut, arg, crashed, dirty, fmtPre, sc >>

\* variant: the flag is left set
StartedAfterDisconnectStuck == TRUE

\* the value line 197 stores
StartedAfterDisconnect == FALSE

\* variant: the teardown also clears the declared length
DisconnectReturnClears(r) ==
    /\ Running
    /\ lastDone' = "disconnect"
    /\ pc[r] = "dis_ret"
    /\ started' = StartedAfterDisconnect
    /\ mut' = "none"
    /\ Goto(r, "idle")
    /\ l' = Zero64
    /\ UNCHANGED << nreq, ids_w, ids_h, ids_hfov, intr, extr, mainVars,
                    cbVars, sub, subActive, data, arg, crashed, dirty,
                    fmtPre, sc >>

\* lines 197-199
DisconnectReturn(r) ==
    /\ Running
    /\ lastDone' = "disconnect"
    /\ pc[r] = "dis_ret"
    /\ started' = StartedAfterDisconnect
    /\ mut' = "none"
    /\ Goto(r, "idle")
    /\ UNCHANGED << nreq, cfgVars, mainVars, cbVars, sub, subActive, data,
                    arg, crashed, dirty, fmtPre, sc >>

\* camgz_set_extrinsics
SetExtrinsics(r) ==
    /\ Running
    /\ lastDone' = "set_extrinsics"
    /\ pc[r] = "idle"
    /\ nreq < MaxReqs
    /\ nreq' = nreq + 1
    /\ \E v \in ExtInputs : extr' = v
    /\ extr' # extr
    /\ sc' = NoScenario
    /\ UNCHANGED << ids_w, ids_h, ids_hfov, l, intr, mainVars, cbVars,
                    connVars, data, mut, pc, arg, crashed, dirty, fmtPre >>

\* variant: the calibration is reset to that of the default geometry
SetDistoResetsCalib(r) ==
    /\ Running
    /\ lastDone' = "set_disto"
    /\ pc[r] = "idle"
    /\ nreq < MaxReqs
    /\ nreq' = nreq + 1
    /\ \E d \in DistoInputs :
         intr' = [calib |-> ComputeCalib(DefaultHfov, DefaultW, DefaultH),
                  disto |-> d]
    /\ intr' # intr
    /\ sc' = NoScenario
    /\ UNCHANGED << ids_w, ids_h, ids_hfov, l, extr, mainVars, cbVars,
                    connVars, data, mut, pc, arg, crashed, dirty, fmtPre >>

\* camgz_set_disto
SetDisto(r) ==
    /\ Running
    /\ lastDone' = "set_disto"
    /\ pc[r] = "idle"
    /\ nreq < MaxReqs
    /\ nreq' = nreq + 1
    /\ \E d \in DistoInputs : intr' = [intr EXCEPT !.disto = d]
    /\ intr' # intr
    /\ sc' = NoScenario
    /\ UNCHANGED << ids_w, ids_h, ids_hfov, l, extr, mainVars, cbVars,
                    connVars, data, mut, pc, arg, crashed, dirty, fmtPre >>

\* camgz_set_hfov is entered with hfov_val, and ids->h, ids->w by value
SetHfovCall(r) ==
    /\ Running
    /\ pc[r] = "idle"
    /\ nreq < MaxReqs
    /\ nreq' = nreq + 1
    /\ \E v \in HfovInputs \cup {DefaultHfov} :
         arg' = [arg EXCEPT ![r] = <<v, ids_h, ids_w>>]
    /\ Goto(r, "hfov_store")
    /\ sc' = NoScenario
    /\ UNCHANGED << lastDone, cfgVars, mainVars, cbVars, connVars, data,
                    mut, crashed, dirty, fmtPre >>

\* line 242
SetHfovStore(r) ==
    /\ Running
    /\ pc[r] = "hfov_store"
    /\ ids_hfov' = arg[r][1]
    /\ Goto(r, "hfov_calib")
    /\ UNCHANGED << lastDone, nreq, ids_w, ids_h, l, intr, extr, mainVars,
                    cbVars, connVars, data, mut, arg, crashed, dirty,
                    fmtPre, sc >>

\* lines 244-249
SetHfovCalib(r) ==
    /\ Running
    /\ lastDone' = "set_hfov"
    /\ pc[r] = "hfov_calib"
    /\ intr' = [intr EXCEPT
                 !.calib = ComputeCalib(ids_hfov, arg[r][3], arg[r][2])]
    /\ arg' = [arg EXCEPT ![r] = NoArg]
    /\ Goto(r, "idle")
    /\ UNCHANGED << nreq, ids_w, ids_h, ids_hfov, l, extr, mainVars, cbVars,
                    connVars, data, mut, crashed, dirty, fmtPre, sc >>

\* camgz_set_fmt is entered with w_val, h_val, and ids->hfov by value
SetFmtCall(r) ==
    /\ Running
    /\ pc[r] = "idle"
    /\ nreq < MaxReqs
    /\ nreq' = nreq + 1
    /\ \E f \in FmtInputs \cup {<<DefaultW, DefaultH>>} :
         arg' = [arg EXCEPT ![r] = <<f[1], f[2], ids_hfov>>]
    /\ Goto(r, "fmt_w")
    /\ fmtPre' = [w |-> ids_w, h |-> ids_h, l |-> l]
    /\ sc' = IF started /\ OthersIdle(r) /\ pc_cb = "idle" /\ MainResting
               THEN <<1, 0>> ELSE NoScenario
    /\ UNCHANGED << lastDone, cfgVars, mainVars, cbVars, connVars, data,
                    mut, crashed, dirty >>

\* line 265
SetFmtW(r) ==
    /\ Running
    /\ pc[r] = "fmt_w"
    /\ ids_w' = arg[r][1]
    /\ Goto(r, "fmt_h")
    /\ UNCHANGED << lastDone, nreq, ids_h, ids_hfov, l, intr, extr,
                    mainVars, cbVars, connVars, data, mut, arg, crashed,
                    dirty, fmtPre, sc >>

\* line 266
SetFmtH(r) ==
    /\ Running
    /\ pc[r] = "fmt_h"
    /\ ids_h' = arg[r][2]
    /\ Goto(r, "fmt_l")
    /\ UNCHANGED << lastDone, nreq, ids_w, ids_hfov, l, intr, extr,
                    mainVars, cbVars, connVars, data, mut, arg, crashed,
                    dirty, fmtPre, sc >>

\* line 268
SetFmtL(r) ==
    /\ Running
    /\ pc[r] = "fmt_l"
    /\ l' \in FmtLength(ids_h, ids_w)
    /\ Goto(r, "fmt_calib")
    /\ UNCHANGED << lastDone, nreq, ids_w, ids_h, ids_hfov, intr, extr,
                    mainVars, cbVars, connVars, data, mut, arg, crashed,
                    dirty, fmtPre, sc >>

\* lines 270-275
SetFmtCalib(r) ==
    /\ Running
    /\ lastDone' = "set_format"
    /\ pc[r] = "fmt_calib"
    /\ intr' = [intr EXCEPT !.calib = ComputeCalib(arg[r][3], ids_w, ids_h)]
    /\ arg' = [arg EXCEPT ![r] = NoArg]
    /\ Goto(r, "idle")
    /\ sc' = IF sc[1] = 1 THEN <<2, 0>> ELSE NoScenario
    /\ UNCHANGED << nreq, ids_w, ids_h, ids_hfov, l, extr, mainVars, cbVars,
                    connVars, data, mut, crashed, dirty, fmtPre >>

(* ------------------------------------------------------------------ *)
(* The component                                                       *)
(* ------------------------------------------------------------------ *)
Next ==
    \/ CbInvoke
    \/ CbSkip
    \/ CbCopy
    \/ Wait
    \/ PubCheck
    \/ PubReserve
    \/ PubEMem
    \/ PubFill
    \/ PubLock
    \/ PubCopy
    \/ PubWrite
    \/ \E r \in Serving :
         \/ ConnectLock(r)
         \/ ConnectSubscribe(r)
         \/ ConnectReturn(r)
         \/ DisconnectLock(r)
         \/ DisconnectShutdown(r)
         \/ DisconnectReturn(r)
         \/ SetExtrinsics(r)
         \/ SetDisto(r)
         \/ SetHfovCall(r)
         \/ SetHfovStore(r)
         \/ SetHfovCalib(r)
         \/ SetFmtCall(r)
         \/ SetFmtW(r)
         \/ SetFmtH(r)
         \/ SetFmtL(r)
         \/ SetFmtCalib(r)

Spec == Init /\ [][Next]_vars

(* ------------------------------------------------------------------ *)
(* Overlapping requests: set_hfov and set_format served by two request *)
(* contexts at once, the bridge not connected                          *)
(* ------------------------------------------------------------------ *)
NextOverlap ==
    \E r \in Req :
      \/ SetHfovCall(r)
      \/ SetHfovStore(r)
      \/ SetHfovCalib(r)
      \/ SetFmtCall(r)
      \/ SetFmtW(r)
      \/ SetFmtH(r)
      \/ SetFmtL(r)
      \/ SetFmtCalib(r)

SpecOverlap == Init /\ [][NextOverlap]_vars

(* ------------------------------------------------------------------ *)
(* The publishing task against set_format, from the state the bridge   *)
(* is in after connect and a first tick                                *)
(* ------------------------------------------------------------------ *)
\* the frame port after the first tick at the default resolution
FirstFrame ==
    [height |-> DefaultH, width |-> DefaultW, bpp |-> Bpp,
     maximum |-> InitLen, length |-> InitLen, buf |-> Unwritten]

\* camgz_start, connect, one tick of task main; requests are counted
\* from this state on
InitPublished ==
    /\ ids_w = DefaultW
    /\ ids_h = DefaultH
    /\ ids_hfov = DefaultHfov
    /\ started = TRUE
    /\ l = InitLen
    /\ data = Unwritten
    /\ mut = "none"
    /\ fdata = FirstFrame
    /\ pubFrame = Snapshot(FirstFrame)
    /\ intr = [calib |-> ComputeCalib(DefaultHfov, DefaultW, DefaultH),
               disto |-> ZeroDisto]
    /\ extr = ZeroExt
    /\ sub = 1
    /\ subActive = TRUE
    /\ pc_main = "wait"
    /\ loc_main = NoLoc
    /\ pc_cb = "idle"
    /\ cb_msg = NoMsg
    /\ nframes = 0
    /\ pc = [r \in Req |-> "idle"]
    /\ arg = [r \in Req |-> NoArg]
    /\ nreq = 0
    /\ crashed = FALSE
    /\ dirty = FALSE
    /\ fmtPre = [w |-> DefaultW, h |-> DefaultH, l |-> InitLen]
    /\ lastDone = "connect"
    /\ sc = NoScenario

NextPub ==
    \/ Wait
    \/ PubCheck
    \/ PubReserve
    \/ PubEMem
    \/ PubFill
    \/ PubLock
    \/ PubCopy
    \/ PubWrite
    \/ \E r \in Serving :
         \/ SetFmtCall(r)
         \/ SetFmtW(r)
         \/ SetFmtH(r)
         \/ SetFmtL(r)
         \/ SetFmtCalib(r)

SpecPub == InitPublished /\ [][NextPub]_vars

(* ------------------------------------------------------------------ *)
(* compute_calib over a range of geometries: set_hfov applied in the   *)
(* states left by camgz_start and one set_format(w, h)                 *)
(* ------------------------------------------------------------------ *)
CalibW == {1, 2, 3, 640, 641, 65535}
CalibH == {1, 2, 480, 481, 65535}

InitCalib ==
    /\ ids_w \in CalibW
    /\ ids_h \in CalibH
    /\ ids_hfov = DefaultHfov
    /\ started = FALSE
    /\ l \in FmtLength(ids_h, ids_w)
    /\ data = Unwritten
    /\ mut = "none"
    /\ fdata = [height |-> 0, width |-> 0, bpp |-> 0, maximum |-> Zero64,
                length |-> Zero64, buf |-> Unwritten]
    /\ pubFrame = [written |-> FALSE, height |-> 0, width |-> 0, bpp |-> 0,
                   length |-> Zero64, buf |-> Unwritten]
    /\ intr = [calib |-> ComputeCalib(DefaultHfov, ids_w, ids_h),
               disto |-> ZeroDisto]
    /\ extr = ZeroExt
    /\ sub = 0
    /\ subActive = FALSE
    /\ pc_main = "wait"
    /\ loc_main = NoLoc
    /\ pc_cb = "idle"
    /\ cb_msg = NoMsg
    /\ nframes = 0
    /\ pc = [r \in Req |-> "idle"]
    /\ arg = [r \in Req |-> NoArg]
    /\ nreq = 1
    /\ crashed = FALSE
    /\ dirty = FALSE
    /\ fmtPre = [w |-> DefaultW, h |-> DefaultH, l |-> InitLen]
    /\ lastDone = "set_format"
    /\ sc = NoScenario

NextCalib ==
    \E r \in Serving :
      \/ SetHfovCall(r)
      \/ SetHfovStore(r)
      \/ SetHfovCalib(r)

SpecCalib == InitCalib /\ [][NextCalib]_vars

(* ------------------------------------------------------------------ *)
(* Properties                                                          *)
(* ------------------------------------------------------------------ *)
ReqStep(r, from, to) == pc[r] = from /\ pc'[r] = to

\* the frame last written carries, as its first pixels._length bytes, the
\* bytes of on_frame number f, and the dimensions now stored
PublishedIs(f) ==
    /\ pubFrame.written
    /\ pubFrame.width = ids_w
    /\ pubFrame.height = ids_h
    /\ pubFrame.bpp = Bpp
    /\ pubFrame.length = MulExact(ids_h, ids_w)
    /\ Writers(pubFrame.buf, pubFrame.length) = {f}

\* C1: every frame record that is published has a pixel length equal to
\* its own width * height * 3, with bpp = 3.
C1_PublishedLengthMatchesDims ==
    pubFrame.written =>
        /\ pubFrame.bpp = Bpp
        /\ pubFrame.length = MulExact(pubFrame.height, pubFrame.width)

\* C2: whenever no reconfiguration is in progress, the declared length
\* cgz_data->l equals the current width * height * 3.
C2_DeclaredLengthMatchesDims ==
    AllIdle => l = MulExact(ids_h, ids_w)

\* C3: the pixels of every published frame are the bytes written by one
\* single on_frame invocation.
C3_NoTornFrames ==
    pubFrame.written =>
        \E f \in 1 .. MaxFrames : Writers(pubFrame.buf, pubFrame.length) = {f}

\* C4: an on_frame invocation whose length differs from the declared
\* length is not copied in: it takes the skip branch, and neither the
\* test nor the skip changes the buffer, the declared length, the
\* resolution or the connection flag.
C4_MismatchDiscarded ==
    [][ /\ (nframes' # nframes /\ cb_msg'.len # l) =>
              /\ pc_cb' = "skip"
              /\ UNCHANGED << data, l, ids_w, ids_h, started >>
        /\ (pc_cb = "skip" /\ pc_cb' # "skip") =>
              /\ pc_cb' = "idle"
              /\ UNCHANGED << data, l, ids_w, ids_h, started, fdata,
                              pubFrame >>
      ]_vars

\* C4 witness: after a completed set_format that changed the declared
\* length, an on_frame carrying the old length is in the skip branch.
C4_OldLengthSkipped ==
    /\ pc_cb = "skip"
    /\ AllIdle
    /\ lastDone = "set_format"
    /\ fmtPre.l # l
    /\ cb_msg.len = fmtPre.l

\* C5: a frame is handed to frame->write only if a frame was copied in
\* since the last write.
C5_PublishOnlyWhenDirty ==
    pc_main = "pub_write" => dirty

C7_ConnectWhenConnectedIsNoOp ==
    [][ \A r \in Req :
          (started /\ ReqStep(r, "con_sub", "con_ret")) => sub' = sub ]_vars

\* C8: started is clear at startup; every connect returns with started
\* set, every disconnect with started clear; no other step changes it.
C8_ConnectionStateMachine ==
    /\ started = FALSE
    /\ [][ /\ \A r \in Req : ReqStep(r, "con_ret", "idle") => started'
           /\ \A r \in Req : ReqStep(r, "dis_ret", "idle") => ~started'
           /\ started' # started =>
                \E r \in Req : \/ ReqStep(r, "con_ret", "idle")
                               \/ ReqStep(r, "dis_ret", "idle")
         ]_vars

\* C8 witness: a connect, then a disconnect, have returned.
C8_ConnectedThenDisconnected ==
    /\ AllIdle
    /\ lastDone = "disconnect"
    /\ sub = 1
    /\ ~started

\* C9: a disconnect entered when the bridge is already disconnected
\* changes nothing but its own position, and no disconnect step changes
\* the extrinsics, the intrinsics, the resolution, the field of view,
\* the declared length, the buffer or the stored subscription.
C9_DisconnectIdempotent ==
    [][ \A r \in Req :
          ( \/ ReqStep(r, "idle", "dis_shut")
            \/ ReqStep(r, "dis_shut", "dis_ret")
            \/ ReqStep(r, "dis_ret", "idle") ) =>
              /\ UNCHANGED << extr, intr, ids_w, ids_h, ids_hfov, l, data,
                              sub, fdata, pubFrame >>
              /\ (~started /\ ~subActive) => UNCHANGED << started, subActive >>
              /\ pc'[r] = "idle" => (~started' /\ ~subActive')
      ]_vars

\* C9 witness: a second disconnect is returning after a first one.
C9_SecondDisconnect ==
    /\ pc["r1"] = "dis_ret"
    /\ lastDone = "disconnect"
    /\ ~started

\* C10: when the reservation for the length stored by the last
\* set_format fails, width, height and declared length are those of
\* before that set_format.
C10_FailedFormatKeepsState ==
    (pc_main = "emem" /\ AllIdle /\ lastDone = "set_format") =>
        /\ ids_w = fmtPre.w
        /\ ids_h = fmtPre.h
        /\ l = fmtPre.l

\* C11: when set_format(w, h) returns, the declared length is w * h * 3
\* and the intrinsics written carry principal_x = w / 2 and
\* principal_y = h / 2 (read here as the whole part of the half, the
\* weakest reading: 640 gives 320).
C11_SetFormatLengthAndPrincipal ==
    [][ \A r \in Req :
          ReqStep(r, "fmt_calib", "idle") =>
              /\ l' = MulExact(arg[r][2], arg[r][1])
              /\ intr'.calib[4] = arg[r][1] \div 2
              /\ intr'.calib[5] = arg[r][2] \div 2 ]_vars

\* C12: set_disto changes the five distortion coefficients of the
\* intrinsics, to those requested, and nothing else: the calibration, the
\* extrinsics, the resolution, the field of view, the declared length and
\* the connection flag are as before.
C12_SetDistoOnlyDistortion ==
    [][ (lastDone' = "set_disto" /\ nreq' # nreq) =>
            /\ intr'.calib = intr.calib
            /\ intr'.disto \in DistoInputs
            /\ UNCHANGED << extr, ids_w, ids_h, ids_hfov, l, started >> ]_vars

\* C12 witness: set_disto has returned after a set_format that moved the
\* calibration away from that of the default geometry.
C12_DistoAfterFormat ==
    /\ AllIdle
    /\ lastDone = "set_disto"
    /\ intr.disto # ZeroDisto
    /\ ids_w # DefaultW
    /\ intr.calib # ComputeCalib(DefaultHfov, DefaultW, DefaultH)
    /\ intr.calib = ComputeCalib(ids_hfov, ids_w, ids_h)

\* C13: for every width and height, odd or even, compute_calib gives
\* principal_x = width / 2, principal_y = height / 2, skew = 0 and
\* focal_x = width / (2 * tan(hfov / 2)), that is (width / 2) over
\* tan(hfov / 2).
C13_CalibExactHalves ==
    [][ \A r \in Req :
          ReqStep(r, "hfov_calib", "idle") =>
              LET c == intr'.calib
                  w == arg[r][3]
                  h == arg[r][2]
              IN  /\ 2 * c[4] = w
                  /\ 2 * c[5] = h
                  /\ c[3] = 0
                  /\ 2 * c[1].num = w
                  /\ c[1].hfov = ids_hfov
                  /\ c[1].p = c[1].q ]_vars

\* C14: mut is not held during an external call: not by task main while
\* it writes the frame port, not by connect while it sets up the
\* subscription, not by disconnect while it shuts the client down.
C14_NoLockAcrossExternalCall ==
    /\ ~(pc_main = "pub_write" /\ mut = "main")
    /\ \A r \in Req : pc[r] \in {"con_sub", "dis_shut"} => mut # r

\* C15: a reconfiguration is one critical section, exclusive with
\* on_frame and with the publishing task: while a set_format is between
\* its update of width and height and its update of the declared length,
\* neither the callback nor task main takes a step.
C15_SetFormatExcludesIngestAndPublish ==
    [][ (\E r \in Req : pc[r] \in {"fmt_h", "fmt_l"}) =>
            UNCHANGED << pc_main, pc_cb >> ]_vars

\* C16: whenever on_frame copies a message into the buffer, the number
\* of bytes copied is the declared length at the moment of the copy.
C16_CopyMatchesDeclaredLength ==
    [][ (pc_cb = "copy" /\ pc_cb' = "idle") => cb_msg.len = l ]_vars

\* C17: at startup and whenever every reconfiguration has returned, also
\* after overlapping set_hfov and set_format, the calibration last
\* written is compute_calib of the stored field of view, width, height.
C17_CalibMatchesStoredGeometry ==
    AllIdle => intr.calib = ComputeCalib(ids_hfov, ids_w, ids_h)

\* C18: when camgz_pub copies the buffer into the frame's pixels, the
\* number of bytes copied does not exceed the capacity reserved and is
\* the pixel length written in the frame record.
C18_PubCopyWithinCapacity ==
    [][ (pc_main = "pub_copy" /\ (pc_main' = "pub_write" \/ crashed')) =>
            /\ LE(l, fdata.maximum)
            /\ fdata.length = l ]_vars

\* C19: the declared length stored by set_format(w, h) is the
\* mathematical product w * h * 3, for every pair of uint16_t values.
C19_StoredLengthIsProduct ==
    [][ \A r \in Req :
          ReqStep(r, "fmt_l", "fmt_calib") =>
              l' = MulExact(arg[r][2], arg[r][1]) ]_vars

\* C20: a tick whose reservation fails returns the memory error without
\* taking mut, writes no frame and leaves the frame record and the
\* camera state as they were; the reservation is attempted only when the
\* declared length exceeds the capacity, and the capacity never shrinks.
C20_FailedReserveAndCapacity ==
    [][ /\ (pc_main = "pub_reserve" /\ pc_main' = "emem") =>
              /\ mut # "main"
              /\ UNCHANGED << fdata, pubFrame, cfgVars, data, started, mut >>
        /\ (pc_main = "emem" /\ pc_main' # "emem") =>
              /\ mut # "main"
              /\ pc_main' = "wait"
              /\ UNCHANGED << fdata, pubFrame, cfgVars, data, started, mut >>
        /\ (pc_main = "pub_check" /\ pc_main' = "pub_reserve") =>
              LT(fdata.maximum, l)
        /\ LE(fdata.maximum, fdata'.maximum)
      ]_vars

====
